---- MODULE Spec2Model ----
(***************************************************************************)
(* Model of matcher.py: the catalog index (Manufacturer -> Family ->       *)
(* Product), manufacturer resolution by bisect_left plus containment,      *)
(* family / orphan product resolution by the whole-model regular           *)
(* expression, and the aggregation of matched listings in Matcher.matches. *)
(*                                                                         *)
(* A string is a sequence of one-character strings, so that lower(),       *)
(* "in", "<" and the regular expression are computed character by          *)
(* character.  Python's None is the value None below.                      *)
(***************************************************************************)
EXTENDS Integers, Sequences, FiniteSets, TLC

VARIABLES
    pc,             \* position in Matcher.run
    debug_mode,     \* Matcher.debug_mode
    manufacturers,  \* Matcher.manufacturers
    matches,        \* Matcher.matches: product name -> list of listings
    matches_count,  \* Matcher.matches_count (debug mode)
    non_matched_manufacturer,  \* Matcher.non_matched_manufacturer (debug mode)
    non_matched_product,       \* Matcher.non_matched_product (debug mode)
    products_read,  \* lines of the products file consumed so far
    steps,          \* one entry per listing line consumed: the loop body's locals
    output          \* lines written by produce_output

vars == <<pc, debug_mode, manufacturers, matches, matches_count,
          non_matched_manufacturer, non_matched_product, products_read,
          steps, output>>

-----------------------------------------------------------------------------
(* Bounds of the model *)

MaxProducts == 2

MaxListings == 2

-----------------------------------------------------------------------------
(* Strings *)

None == <<"None">>

\* The characters used by the inputs, with their code points: Python compares
\* strings code point by code point.
Ord == [c \in {" ", "+", "A", "B", "P", "a", "b", "c", "p", "q"} |->
          CASE c = " " -> 32
            [] c = "+" -> 43
            [] c = "A" -> 65
            [] c = "B" -> 66
            [] c = "P" -> 80
            [] c = "a" -> 97
            [] c = "b" -> 98
            [] c = "c" -> 99
            [] c = "p" -> 112
            [] c = "q" -> 113]

\* str.lower() on one character
lower_char(c) ==
    CASE c = "A" -> "a"
      [] c = "B" -> "b"
      [] c = "P" -> "p"
      [] OTHER -> c

\* str.lower()
lower(s) == [i \in 1..Len(s) |-> lower_char(s[i])]

normalize(s) == IF s = None THEN s ELSE lower(s)

\* Python's "a in b" on strings: a occurs in b as a contiguous substring
occurs_at(a, b, i) ==
    /\ i + Len(a) <= Len(b)
    /\ \A k \in 1..Len(a) : b[i + k] = a[k]

str_in(a, b) == \E i \in 0..Len(b) : occurs_at(a, b, i)

\* Python's "a < b" on strings: lexicographic by code point, a proper prefix
\* is smaller
RECURSIVE str_lt(_, _)
str_lt(a, b) ==
    IF b = <<>> THEN FALSE
    ELSE IF a = <<>> THEN TRUE
    ELSE IF Ord[Head(a)] # Ord[Head(b)] THEN Ord[Head(a)] < Ord[Head(b)]
    ELSE str_lt(Tail(a), Tail(b))

-----------------------------------------------------------------------------
(* The whole-model regular expression  (^|\b)(model)($|\b) *)

\* \w of the re module (no flags): letters, digits and underscore
is_word(c) == c \in {"A", "B", "P", "a", "b", "c", "p", "q"}

\* \b at offset p of title: exactly one side of p is a word character
word_boundary(title, p) ==
    LET before == p > 0 /\ is_word(title[p])
        after  == p < Len(title) /\ is_word(title[p + 1])
    IN  before # after

\* The model is inserted into the pattern unescaped, so a "+" in it is the
\* repetition operator.  sre_parse rejects a "+" with nothing before it to
\* repeat ("nothing to repeat") and a "+" after a "+" ("multiple repeat").
RECURSIVE re_compiles(_)
re_compiles(model) ==
    IF model = <<>> THEN TRUE
    ELSE IF Head(model) = "+" THEN FALSE
    ELSE IF Len(model) >= 2 /\ model[2] = "+" THEN re_compiles(SubSeq(model, 3, Len(model)))
    ELSE re_compiles(Tail(model))

\* re.compile of the pattern built from the model: the model's part of the
\* pattern as a sequence of items, a character that is repeated or not.
RECURSIVE re_compile(_)
re_compile(model) ==
    IF model = <<>> THEN <<>>
    ELSE IF Len(model) >= 2 /\ model[2] = "+"
         THEN <<[char |-> model[1], repeat |-> TRUE]>>
                  \o re_compile(SubSeq(model, 3, Len(model)))
         ELSE <<[char |-> model[1], repeat |-> FALSE]>> \o re_compile(Tail(model))

\* number of consecutive characters c in title from offset s on
RECURSIVE run_length(_, _, _)
run_length(title, s, c) ==
    IF s < Len(title) /\ title[s + 1] = c THEN 1 + run_length(title, s + 1, c) ELSE 0

\* the offsets at which a match of the items that starts at offset s can end
RECURSIVE match_ends(_, _, _)
match_ends(items, title, s) ==
    IF items = <<>> THEN {s}
    ELSE LET run == run_length(title, s, Head(items).char)
             counts == IF Head(items).repeat THEN 1..run
                       ELSE IF run >= 1 THEN {1} ELSE {}
         IN  UNION {match_ends(Tail(items), title, s + n) : n \in counts}

\* Mutant of re_search: the pattern without its two anchor groups, a search
\* of the model anywhere in the title
re_search_anywhere(whole_model_re, title) ==
    \E s \in 0..Len(title) : match_ends(whole_model_re, title, s) # {}

\* whole_model_re.search(title) is not None, for (^|\b)(model)($|\b)
re_search(whole_model_re, title) ==
    \E s \in 0..Len(title) :
        /\ s = 0 \/ word_boundary(title, s)
        /\ \E e \in match_ends(whole_model_re, title, s) :
              e = Len(title) \/ word_boundary(title, e)

-----------------------------------------------------------------------------
(* Product, Family, Manufacturer *)

Product(name, family, model) ==
    [name |-> normalize(name),
     family |-> normalize(family),
     model |-> normalize(model),
     whole_model_re |-> re_compile(normalize(model))]

Family(name) == [name |-> normalize(name), products |-> <<>>]

Manufacturer(name) ==
    [name |-> normalize(name), products |-> <<>>, families |-> <<>>,
     orphans_products |-> <<>>]

\* index of the first family of that name, 0 when there is none
family_index(families, name) ==
    IF \E i \in 1..Len(families) : families[i].name = name
    THEN CHOOSE i \in 1..Len(families) :
            /\ families[i].name = name
            /\ \A j \in 1..(i - 1) : families[j].name # name
    ELSE 0

\* Family.add_product
family_add_product(family, product) ==
    [family EXCEPT !.products = Append(@, product)]

\* Manufacturer.add_product
add_product(m, product) ==
    LET m1 == [m EXCEPT !.products = Append(@, product)]
    IN  IF product.family = None
        THEN [m1 EXCEPT !.orphans_products = Append(@, product)]
        ELSE LET normalized_family_name == normalize(product.family)
                 i == family_index(m1.families, normalized_family_name)
                 families == IF i = 0
                             THEN Append(m1.families, Family(normalized_family_name))
                             ELSE m1.families
                 k == IF i = 0 THEN Len(families) ELSE i
             IN  [m1 EXCEPT !.families =
                     [families EXCEPT ![k] = family_add_product(@, product)]]

-----------------------------------------------------------------------------
(* prepare_products_data *)

\* the key is present in the parsed line (no KeyError on product_json[key])
has_key(product_json, key) == key \in DOMAIN product_json

\* index of the manufacturer of that name, 0 when there is none
manufacturer_index(ms, name) ==
    IF \E i \in 1..Len(ms) : ms[i].name = name
    THEN CHOOSE i \in 1..Len(ms) :
            /\ ms[i].name = name
            /\ \A j \in 1..(i - 1) : ms[j].name # name
    ELSE 0

\* Determines the manufacturer of a line: the list with the manufacturer
\* appended when it does not exist yet
with_manufacturer(ms, product_json) ==
    LET normalized_manufacturer_name == normalize(product_json.manufacturer)
    IN  IF manufacturer_index(ms, normalized_manufacturer_name) = 0
        THEN Append(ms, Manufacturer(normalized_manufacturer_name))
        ELSE ms

\* The line raises: a KeyError on a missing field, or re.error from
\* Product.__init__ on a model that is no regular expression
line_raises(product_json) ==
    IF has_key(product_json, "manufacturer")
          /\ has_key(product_json, "product_name")
          /\ has_key(product_json, "model")
    THEN ~re_compiles(normalize(product_json.model))
    ELSE TRUE

\* Matcher.manufacturers when the line raises: what was done before the raise
prepare_line_raised(ms, product_json) ==
    IF ~has_key(product_json, "manufacturer") THEN ms
    ELSE with_manufacturer(ms, product_json)

\* One line of the products file that does not raise
prepare_line(ms, product_json) ==
    LET ms1 == with_manufacturer(ms, product_json)
        i == manufacturer_index(ms1, normalize(product_json.manufacturer))
        product == Product(product_json.product_name,
                           IF has_key(product_json, "family")
                           THEN product_json.family ELSE None,
                           product_json.model)
    IN  [ms1 EXCEPT ![i] = add_product(@, product)]

\* list.sort() with Manufacturer.__lt__: a stable insertion of each element
RECURSIVE sort_insert(_, _)
sort_insert(sorted, m) ==
    IF sorted = <<>> THEN <<m>>
    ELSE IF str_lt(m.name, Head(sorted).name) THEN <<m>> \o sorted
    ELSE <<Head(sorted)>> \o sort_insert(Tail(sorted), m)

RECURSIVE sort(_)
sort(ms) ==
    IF ms = <<>> THEN <<>>
    ELSE sort_insert(sort(SubSeq(ms, 1, Len(ms) - 1)), ms[Len(ms)])

-----------------------------------------------------------------------------
(* match_listings *)

\* bisect.bisect_left(a, x) with Manufacturer.__lt__
RECURSIVE bisect_loop(_, _, _, _)
bisect_loop(a, x, lo, hi) ==
    IF lo < hi
    THEN LET mid == (lo + hi) \div 2
         IN  IF str_lt(a[mid + 1].name, x.name)
             THEN bisect_loop(a, x, mid + 1, hi)
             ELSE bisect_loop(a, x, lo, mid)
    ELSE lo

\* Mutant of bisect_left: bisect_right, the insertion point after equal elements
RECURSIVE bisect_right_loop(_, _, _, _)
bisect_right_loop(a, x, lo, hi) ==
    IF lo < hi
    THEN LET mid == (lo + hi) \div 2
         IN  IF str_lt(x.name, a[mid + 1].name)
             THEN bisect_right_loop(a, x, lo, mid)
             ELSE bisect_right_loop(a, x, mid + 1, hi)
    ELSE lo

bisect_right(a, x) == bisect_right_loop(a, x, 0, Len(a))

bisect_left(a, x) == bisect_loop(a, x, 0, Len(a))

\* Mutant of find_manufacturer: only the element at the insertion index is
\* checked
find_manufacturer_at_index_only(ms, normalized_manufacturer_name) ==
    LET index == bisect_left(ms, Manufacturer(normalized_manufacturer_name))
    IN  IF index < Len(ms) /\ str_in(normalized_manufacturer_name, ms[index + 1].name)
        THEN index + 1
        ELSE 0

\* Finds the manufacturer: its position in Matcher.manufacturers (from 1),
\* 0 for manufacturer = None
find_manufacturer(ms, normalized_manufacturer_name) ==
    LET index == bisect_left(ms, Manufacturer(normalized_manufacturer_name))
    IN  IF index < Len(ms) /\ str_in(normalized_manufacturer_name, ms[index + 1].name)
        THEN index + 1
        ELSE IF index > 0 /\ str_in(normalized_manufacturer_name, ms[index].name)
        THEN index
        ELSE 0

\* Mutant of record_match: the key's list is replaced, not appended to
record_match_replacing(ms, key, listing) == (key :> <<listing>>) @@ ms

\* Matcher.matches with the listing recorded under the key
record_match(ms, key, listing) ==
    IF key \notin DOMAIN ms
    THEN (key :> <<listing>>) @@ ms
    ELSE [ms EXCEPT ![key] = Append(@, listing)]

\* find_product_and_add_to_result: the first product of the list whose
\* whole_model_re is found in the title (0: none, the call returns False)
first_match(products, normalized_listing_title) ==
    IF \E i \in 1..Len(products) :
           re_search(products[i].whole_model_re, normalized_listing_title)
    THEN CHOOSE i \in 1..Len(products) :
            /\ re_search(products[i].whole_model_re, normalized_listing_title)
            /\ \A j \in 1..(i - 1) :
                  ~re_search(products[j].whole_model_re, normalized_listing_title)
    ELSE 0

\* find_product_and_add_to_result on the run's state st: st with the call
\* noted in st.calls and, when a product is found, the listing recorded
find_product_and_add_to_result(st, products, listing, normalized_listing_title) ==
    LET i == first_match(products, normalized_listing_title)
        call == [products |-> products, found |-> i # 0]
    IN  IF i = 0
        THEN [st EXCEPT !.calls = Append(@, call), !.returned = FALSE]
        ELSE [st EXCEPT !.calls = Append(@, call),
                        !.returned = TRUE,
                        !.product = <<products[i]>>,
                        !.matches = record_match(@, products[i].name, listing),
                        !.matches_count = IF debug_mode THEN @ + 1 ELSE @]

\* Mutant of family_loop: the loop ends at the first family whose name occurs
\* in the title, whether or not one of its products is found
RECURSIVE family_loop_first_named(_, _, _, _, _)
family_loop_first_named(st, families, i, listing, normalized_listing_title) ==
    IF i > Len(families) THEN st
    ELSE IF str_in(families[i].name, normalized_listing_title)
    THEN LET st1 == find_product_and_add_to_result(
                        st, families[i].products, listing, normalized_listing_title)
         IN  [st1 EXCEPT !.broke = st1.returned]
    ELSE family_loop_first_named(st, families, i + 1, listing,
                                 normalized_listing_title)

\* the for loop over manufacturer.families from family number i on;
\* st.broke tells whether the loop ended by break
RECURSIVE family_loop(_, _, _, _, _)
family_loop(st, families, i, listing, normalized_listing_title) ==
    IF i > Len(families) THEN st
    ELSE IF str_in(families[i].name, normalized_listing_title)
    THEN LET st1 == find_product_and_add_to_result(
                        st, families[i].products, listing, normalized_listing_title)
         IN  IF st1.returned
             THEN [st1 EXCEPT !.broke = TRUE]
             ELSE family_loop(st1, families, i + 1, listing, normalized_listing_title)
    ELSE family_loop(st, families, i + 1, listing, normalized_listing_title)

\* Mutant of match_products: the orphan products are searched whether or not
\* the loop over the families ended by break
match_products_without_else(st, manufacturer, listing, normalized_listing_title) ==
    LET st1 == family_loop(st, manufacturer.families, 1, listing,
                           normalized_listing_title)
        st2 == find_product_and_add_to_result(
                   st1, manufacturer.orphans_products, listing,
                   normalized_listing_title)
    IN  IF ~st2.returned /\ debug_mode
        THEN [st2 EXCEPT !.non_matched_product = Append(@, listing)]
        ELSE st2

\* Mutant of match_products: the orphan products are searched first, the
\* families only when no orphan product is found
match_products_orphans_first(st, manufacturer, listing, normalized_listing_title) ==
    LET st1 == find_product_and_add_to_result(
                   st, manufacturer.orphans_products, listing,
                   normalized_listing_title)
    IN  IF st1.returned THEN st1
        ELSE LET st2 == family_loop(st1, manufacturer.families, 1, listing,
                                    normalized_listing_title)
             IN  IF ~st2.broke /\ debug_mode
                 THEN [st2 EXCEPT !.non_matched_product = Append(@, listing)]
                 ELSE st2

\* the body of "if manufacturer is not None": the for loop and its else
match_products(st, manufacturer, listing, normalized_listing_title) ==
    LET st1 == family_loop(st, manufacturer.families, 1, listing,
                           normalized_listing_title)
    IN  IF st1.broke THEN st1
        ELSE LET st2 == find_product_and_add_to_result(
                            st1, manufacturer.orphans_products, listing,
                            normalized_listing_title)
             IN  IF ~st2.returned /\ debug_mode
                 THEN [st2 EXCEPT !.non_matched_product = Append(@, listing)]
                 ELSE st2

\* the body of the loop over the listings file
match_listing(st, ms, listing) ==
    LET normalized_manufacturer_name == normalize(listing.manufacturer)
        normalized_listing_title == normalize(listing.title)
        i == find_manufacturer(ms, normalized_manufacturer_name)
        st0 == [st EXCEPT !.manufacturer = IF i = 0 THEN None ELSE ms[i].name]
    IN  IF i # 0
        THEN match_products(st0, ms[i], listing, normalized_listing_title)
        ELSE IF debug_mode
        THEN [st0 EXCEPT !.non_matched_manufacturer = Append(@, listing)]
        ELSE st0

-----------------------------------------------------------------------------
(* The run: prepare_products_data, match_listings, produce_output *)

Init ==
    /\ pc = "prepare_products_data"
    /\ debug_mode \in BOOLEAN
    /\ manufacturers = <<>>
    /\ matches = <<>>
    /\ matches_count = 0
    /\ non_matched_manufacturer = <<>>
    /\ non_matched_product = <<>>
    /\ products_read = <<>>
    /\ steps = <<>>
    /\ output = {}

\* One line of the products file is read and its product added
ReadProduct(lines) ==
    /\ pc = "prepare_products_data"
    /\ Len(products_read) < MaxProducts
    /\ \E product_json \in lines :
          /\ ~line_raises(product_json)
          /\ manufacturers' = prepare_line(manufacturers, product_json)
          /\ products_read' = Append(products_read, product_json)
    /\ UNCHANGED <<pc, debug_mode, matches, matches_count,
                   non_matched_manufacturer, non_matched_product, steps, output>>

\* One line of the products file is read and raises: run() ends there
ReadProductRaises(lines) ==
    /\ pc = "prepare_products_data"
    /\ Len(products_read) < MaxProducts
    /\ \E product_json \in lines :
          /\ line_raises(product_json)
          /\ manufacturers' = prepare_line_raised(manufacturers, product_json)
          /\ products_read' = Append(products_read, product_json)
    /\ pc' = "raised"
    /\ UNCHANGED <<debug_mode, matches, matches_count,
                   non_matched_manufacturer, non_matched_product, steps, output>>

\* The products file ends: the list is sorted and match_listings begins
EndOfProducts ==
    /\ pc = "prepare_products_data"
    /\ manufacturers' = sort(manufacturers)
    /\ pc' = "match_listings"
    /\ matches' = <<>>
    /\ matches_count' = 0
    /\ non_matched_manufacturer' = <<>>
    /\ non_matched_product' = <<>>
    /\ UNCHANGED <<debug_mode, products_read, steps, output>>

\* One line of the listings file is read and matched
MatchListing(lines) ==
    /\ pc = "match_listings"
    /\ Len(steps) < MaxListings
    /\ \E listing \in lines :
          LET st == [matches |-> matches,
                     matches_count |-> matches_count,
                     non_matched_manufacturer |-> non_matched_manufacturer,
                     non_matched_product |-> non_matched_product,
                     manufacturer |-> None,
                     calls |-> <<>>,
                     returned |-> FALSE,
                     broke |-> FALSE,
                     product |-> <<>>]
              st1 == match_listing(st, manufacturers, listing)
          IN  /\ matches' = st1.matches
              /\ matches_count' = st1.matches_count
              /\ non_matched_manufacturer' = st1.non_matched_manufacturer
              /\ non_matched_product' = st1.non_matched_product
              /\ steps' = Append(steps,
                     [listing |-> listing,
                      normalized_manufacturer_name |-> normalize(listing.manufacturer),
                      normalized_listing_title |-> normalize(listing.title),
                      manufacturer |-> st1.manufacturer,
                      calls |-> st1.calls,
                      broke |-> st1.broke,
                      product |-> st1.product])
    /\ UNCHANGED <<pc, debug_mode, manufacturers, products_read, output>>

\* The listings file ends: produce_output writes one line per key
ProduceOutput ==
    /\ pc = "match_listings"
    /\ output' = {[product_name |-> product_name, listings |-> matches[product_name]] :
                     product_name \in DOMAIN matches}
    /\ pc' = "done"
    /\ UNCHANGED <<debug_mode, manufacturers, matches, matches_count,
                   non_matched_manufacturer, non_matched_product, products_read,
                   steps>>

-----------------------------------------------------------------------------
(* Inputs and specifications *)

\* Products of three manufacturers, one of them a prefix of another, all
\* without family, and three lines that lack a required field
ProductLines ==
    {[manufacturer |-> m, product_name |-> n, model |-> <<"a">>] :
        m \in {<<"A">>, <<"a", "b">>, <<"c">>}, n \in {<<"P">>, <<"q">>}}
    \cup {[product_name |-> <<"P">>, model |-> <<"a">>],
          [manufacturer |-> <<"A">>, model |-> <<"a">>],
          [manufacturer |-> <<"c">>, product_name |-> <<"P">>]}

ListingLines ==
    {[manufacturer |-> m, title |-> t] :
        m \in {<<>>, <<"A">>, <<"b">>},
        t \in {<<"A">>, <<"a", "b">>}}

Next ==
    \/ ReadProduct(ProductLines)
    \/ ReadProductRaises(ProductLines)
    \/ EndOfProducts
    \/ MatchListing(ListingLines)
    \/ ProduceOutput

Spec == Init /\ [][Next]_vars

\* Products of one manufacturer, in two families or without family, whose
\* models and family names occur in one another
FamilyProductLines ==
    {[manufacturer |-> <<"a">>, product_name |-> <<"p">>, model |-> d] :
        d \in {<<"a">>, <<"A", "B">>}}
    \cup {[manufacturer |-> <<"a">>, product_name |-> <<"p">>, family |-> f, model |-> d] :
        f \in {<<"a">>, <<"B">>}, d \in {<<"a">>, <<"A", "B">>}}
    \cup {[manufacturer |-> <<"a">>, family |-> <<"a">>, model |-> <<"a">>]}

FamilyListingLines ==
    {[manufacturer |-> <<"a">>, title |-> t] :
        t \in {<<"a">>, <<"A", "b">>, <<"a", " ", "b">>}}

NextFamilies ==
    \/ ReadProduct(FamilyProductLines)
    \/ ReadProductRaises(FamilyProductLines)
    \/ EndOfProducts
    \/ MatchListing(FamilyListingLines)
    \/ ProduceOutput

SpecFamilies == Init /\ [][NextFamilies]_vars

\* Orphan products of one manufacturer whose models hold the character "+"
ModelProductLines ==
    {[manufacturer |-> <<"a">>, product_name |-> n, model |-> d] :
        n \in {<<"p">>, <<"q">>},
        d \in {<<"a">>, <<"a", "+">>, <<"a", "+", "b">>, <<"+">>}}

ModelListingLines ==
    {[manufacturer |-> <<"a">>, title |-> t] :
        t \in {<<"a">>, <<"a", "a">>, <<"a", "+">>, <<"a", "+", "b">>,
               <<"a", "a", "b">>}}

NextModels ==
    \/ ReadProduct(ModelProductLines)
    \/ ReadProductRaises(ModelProductLines)
    \/ EndOfProducts
    \/ MatchListing(ModelListingLines)
    \/ ProduceOutput

SpecModels == Init /\ [][NextModels]_vars

-----------------------------------------------------------------------------
(* Vocabulary of the properties *)

Matching == pc \in {"match_listings", "done"}

StepNumbers == 1..Len(steps)

\* the catalog manufacturer a step resolved (the step has one)
ResolvedManufacturer(s) ==
    manufacturers[CHOOSE j \in 1..Len(manufacturers) :
                     manufacturers[j].name = s.manufacturer]

\* the number of catalog manufacturers whose name is smaller than m: the
\* insertion index of m in the sorted sequence
InsertionIndex(m) ==
    Cardinality({j \in 1..Len(manufacturers) : str_lt(manufacturers[j].name, m)})

\* the whole-model pattern of the product is found in the title
ProductMatches(product, title) == re_search(product.whole_model_re, title)

SomeProductMatches(products, title) ==
    \E k \in 1..Len(products) : ProductMatches(products[k], title)

\* the first product of the list whose pattern is found in the title
FirstMatching(products, title) ==
    products[CHOOSE k \in 1..Len(products) :
                /\ ProductMatches(products[k], title)
                /\ \A j \in 1..(k - 1) : ~ProductMatches(products[j], title)]

\* the families of the manufacturer whose name occurs in the title, by number
NamedFamilies(m, title) ==
    {i \in 1..Len(m.families) : str_in(m.families[i].name, title)}

\* those of them that have a product whose pattern is found in the title
YieldingFamilies(m, title) ==
    {i \in NamedFamilies(m, title) :
        SomeProductMatches(m.families[i].products, title)}

Min(S) == CHOOSE x \in S : \A y \in S : x <= y

\* the numbers of a set in ascending order
RECURSIVE Ascending(_)
Ascending(S) == IF S = {} THEN <<>> ELSE <<Min(S)>> \o Ascending(S \ {Min(S)})

\* the product lists of the families numbered in S, in registration order
FamilyLists(m, S) ==
    LET order == Ascending(S)
    IN  [n \in 1..Len(order) |-> m.families[order[n]].products]

\* the product lists a step handed to product resolution, in call order
ListsTried(s) == [n \in 1..Len(s.calls) |-> s.calls[n].products]

\* the listings of the steps recorded under the key, in processing order
RECURSIVE RecordedUnder(_, _)
RecordedUnder(key, n) ==
    IF n = 0 THEN <<>>
    ELSE IF steps[n].product # <<>> /\ steps[n].product[1].name = key
    THEN Append(RecordedUnder(key, n - 1), steps[n].listing)
    ELSE RecordedUnder(key, n - 1)

IsAlphanumeric(c) == c \in {"A", "B", "P", "a", "b", "c", "p", "q"}

AlphanumericString(str) == \A k \in 1..Len(str) : IsAlphanumeric(str[k])

\* the occurrence of the model at offset i of the title touches an
\* alphanumeric character on its left or on its right
Embedded(model, title, i) ==
    \/ i > 0 /\ IsAlphanumeric(title[i])
    \/ i + Len(model) < Len(title) /\ IsAlphanumeric(title[i + Len(model) + 1])

\* the catalog lines read that built the product
LinesOf(product) ==
    {n \in 1..Len(products_read) :
        /\ ~line_raises(products_read[n])
        /\ Product(products_read[n].product_name,
                   IF has_key(products_read[n], "family")
                   THEN products_read[n].family ELSE None,
                   products_read[n].model) = product}

-----------------------------------------------------------------------------
(* Properties *)

\* what one pass of the loop over the listings does to the result mapping
C1_Step ==
    Len(steps') = Len(steps) + 1 =>
        LET s == steps'[Len(steps')]
            yielded == \E n \in 1..Len(s.calls) : s.calls[n].found
        IN  IF s.manufacturer = None \/ ~yielded
            THEN matches' = matches
            ELSE \E key \in DOMAIN matches' :
                    /\ DOMAIN matches' = DOMAIN matches \cup {key}
                    /\ matches'[key] =
                          IF key \in DOMAIN matches
                          THEN Append(matches[key], s.listing)
                          ELSE <<s.listing>>
                    /\ \A other \in DOMAIN matches' \ {key} :
                          matches'[other] = matches[other]

\* C1: one pass of the per-listing loop body appends the listing to the list
\* of at most one product key, exactly once; a listing whose manufacturer is
\* not resolved, or for which no candidate list yields a product, is appended
\* to no list.
C1_AtMostOneAppendPerListing == [][C1_Step]_vars

\* C1 witness: a listing was recorded once although a family product and an
\* orphan product both match its title, and another listing was recorded nowhere
C1_Witness ==
    /\ Len(steps) = 2
    /\ steps[1].product # <<>>
    /\ SomeProductMatches(ResolvedManufacturer(steps[1]).orphans_products,
                          steps[1].normalized_listing_title)
    /\ steps[1].product[1].family # None
    /\ steps[2].manufacturer # None
    /\ steps[2].product = <<>>
    /\ DOMAIN matches = {steps[1].product[1].name}
    /\ matches[steps[1].product[1].name] = <<steps[1].listing>>

\* C2: with i the insertion index of the normalized listing manufacturer m,
\* the manufacturer resolved is the element at i when i is in range and m is
\* a substring of its name, otherwise the element at i-1 when i > 0 and m is
\* a substring of its name, otherwise none; when none is resolved no product
\* list is tried and nothing is recorded.
C2_ManufacturerResolution ==
    Matching =>
        \A n \in StepNumbers :
            LET s == steps[n]
                m == s.normalized_manufacturer_name
                i == InsertionIndex(m)
            IN  /\ s.manufacturer =
                       IF i < Len(manufacturers) /\ str_in(m, manufacturers[i + 1].name)
                       THEN manufacturers[i + 1].name
                       ELSE IF i > 0 /\ str_in(m, manufacturers[i].name)
                       THEN manufacturers[i].name
                       ELSE None
                /\ s.manufacturer = None =>
                       /\ s.calls = <<>>
                       /\ s.product = <<>>

\* C2 witness: the element at the insertion index is in range and does not
\* contain m, and the element before it does and is resolved
C2_Witness ==
    /\ Matching
    /\ \E n \in StepNumbers :
          LET m == steps[n].normalized_manufacturer_name
              i == InsertionIndex(m)
          IN  /\ 0 < i /\ i < Len(manufacturers)
              /\ ~str_in(m, manufacturers[i + 1].name)
              /\ str_in(m, manufacturers[i].name)
              /\ steps[n].manufacturer = manufacturers[i].name

\* C3 as stated: when the title holds the names of two or more families of
\* the resolved manufacturer, only the product list of the first-registered
\* of them is handed to family-scoped product resolution, and the listing is
\* never matched to a product of a later-registered one.
C3_FirstNamedFamilyOnly ==
    Matching =>
        \A n \in StepNumbers :
            LET s == steps[n]
            IN  s.manufacturer # None =>
                    LET m == ResolvedManufacturer(s)
                        named == NamedFamilies(m, s.normalized_listing_title)
                    IN  Cardinality(named) >= 2 =>
                            /\ ListsTried(s) \in
                                  {FamilyLists(m, {Min(named)}),
                                   FamilyLists(m, {Min(named)})
                                       \o <<m.orphans_products>>}
                            /\ s.product # <<>> =>
                                  s.product[1].family \in
                                      {None, m.families[Min(named)].name}

\* C3 amended: the families whose name occurs in the title are handed to
\* product resolution in registration order until one of them yields a
\* product; the product recorded is the first matching product of the
\* first-registered family that is named in the title and has a matching
\* product; the orphan list is tried only when no named family has one.
C3_FirstYieldingFamily ==
    Matching =>
        \A n \in StepNumbers :
            LET s == steps[n]
                title == s.normalized_listing_title
            IN  s.manufacturer # None =>
                    LET m == ResolvedManufacturer(s)
                        named == NamedFamilies(m, title)
                        yielding == YieldingFamilies(m, title)
                    IN  IF yielding # {}
                        THEN /\ ListsTried(s) =
                                   FamilyLists(m, {i \in named : i <= Min(yielding)})
                             /\ s.product =
                                   <<FirstMatching(m.families[Min(yielding)].products,
                                                   title)>>
                        ELSE /\ ListsTried(s) =
                                   FamilyLists(m, named) \o <<m.orphans_products>>
                             /\ s.product # <<>> => s.product[1].family = None

\* C3 witness: the title names two families, the first-registered one has no
\* matching product, and the listing is recorded under a product of the other
C3_Witness ==
    /\ Matching
    /\ \E n \in StepNumbers :
          /\ steps[n].manufacturer # None
          /\ LET m == ResolvedManufacturer(steps[n])
                 title == steps[n].normalized_listing_title
             IN  /\ Cardinality(NamedFamilies(m, title)) = 2
                 /\ YieldingFamilies(m, title) = {2}
                 /\ steps[n].product # <<>>
                 /\ steps[n].product[1].family = m.families[2].name
                 /\ steps[n].product[1].name \in DOMAIN matches

\* C4: a product whose normalized model is alphanumeric is not selected for
\* a title in which every occurrence of the model touches an alphanumeric
\* character on its left or on its right.
C4_WordBoundary ==
    Matching =>
        \A n \in StepNumbers :
            LET s == steps[n]
                title == s.normalized_listing_title
            IN  s.manufacturer # None =>
                    LET products == ResolvedManufacturer(s).products
                    IN  \A k \in 1..Len(products) :
                            LET model == products[k].model
                            IN  /\ AlphanumericString(model)
                                /\ \A i \in 0..Len(title) :
                                      occurs_at(model, title, i) =>
                                          Embedded(model, title, i)
                                => s.product # <<products[k]>>

\* C4 witness: the only product tried has an alphanumeric model that occurs in
\* the title, always inside a longer alphanumeric run, and the listing is
\* left unmatched
C4_Witness ==
    /\ Matching
    /\ \E n \in StepNumbers :
          LET s == steps[n]
              title == s.normalized_listing_title
          IN  /\ Len(s.calls) = 1
              /\ Len(s.calls[1].products) = 1
              /\ AlphanumericString(s.calls[1].products[1].model)
              /\ str_in(s.calls[1].products[1].model, title)
              /\ \A i \in 0..Len(title) :
                    occurs_at(s.calls[1].products[1].model, title, i) =>
                        Embedded(s.calls[1].products[1].model, title, i)
              /\ s.product = <<>>
              /\ matches = <<>>

\* C5: product resolution run on a candidate list that contains a product P,
\* with a normalized title equal to P.model, returns success and records the
\* listing under P's name.
C5_ExactModelSelectsProduct ==
    Matching =>
        \A n \in StepNumbers :
            LET s == steps[n]
            IN  \A c \in 1..Len(s.calls) :
                    \A k \in 1..Len(s.calls[c].products) :
                        LET P == s.calls[c].products[k]
                        IN  s.normalized_listing_title = P.model =>
                                /\ s.calls[c].found
                                /\ s.product # <<>>
                                /\ s.product[1].name = P.name

\* C6: product resolution on a family's list comes before the orphan list,
\* which is tried last and only when no family list yielded a product; when
\* a family named in the title has a product that matches the title, the
\* listing is recorded under a family product and the orphan list is not
\* tried, even when an orphan product matches the title too.
C6_FamilyPrecedence ==
    Matching =>
        \A n \in StepNumbers :
            LET s == steps[n]
                title == s.normalized_listing_title
            IN  s.manufacturer # None =>
                    LET m == ResolvedManufacturer(s)
                        families == {m.families[i].products : i \in 1..Len(m.families)}
                    IN  /\ \A c \in 1..Len(s.calls) :
                              /\ s.calls[c].found => c = Len(s.calls)
                              /\ s.calls[c].products \notin families => c = Len(s.calls)
                        /\ YieldingFamilies(m, title) # {} =>
                              /\ s.product # <<>>
                              /\ s.product[1].family # None
                              /\ \A c \in 1..Len(s.calls) :
                                    s.calls[c].products \in families
                              /\ s.product[1].name \in DOMAIN matches

\* C6 witness: a family product and an orphan product both match the title,
\* and the listing is recorded under the family product
C6_Witness ==
    /\ Matching
    /\ \E n \in StepNumbers :
          /\ steps[n].manufacturer # None
          /\ LET m == ResolvedManufacturer(steps[n])
                 title == steps[n].normalized_listing_title
             IN  /\ YieldingFamilies(m, title) # {}
                 /\ SomeProductMatches(m.orphans_products, title)
                 /\ steps[n].product # <<>>
                 /\ steps[n].product[1].family # None
                 /\ Len(steps[n].calls) = 1

\* C7: the manufacturer names of the catalog are unique and ascending, and a
\* listing whose normalized manufacturer string equals the name of a catalog
\* manufacturer resolves to that manufacturer, not to another one whose name
\* contains the string.
C7_ExactManufacturerWins ==
    Matching =>
        /\ \A i, j \in 1..Len(manufacturers) :
              i < j => str_lt(manufacturers[i].name, manufacturers[j].name)
        /\ \A n \in StepNumbers :
              \A j \in 1..Len(manufacturers) :
                  manufacturers[j].name = steps[n].normalized_manufacturer_name =>
                      steps[n].manufacturer = manufacturers[j].name

\* C7 witness: the catalog holds a manufacturer and another one whose name
\* begins with the first one's name; a listing naming the first resolves to it
C7_Witness ==
    /\ Matching
    /\ Len(manufacturers) = 2
    /\ manufacturers[1].name # manufacturers[2].name
    /\ str_in(manufacturers[1].name, manufacturers[2].name)
    /\ \E n \in StepNumbers :
          /\ steps[n].normalized_manufacturer_name = manufacturers[1].name
          /\ steps[n].manufacturer = manufacturers[1].name

\* the result mapping holds the listings matched so far, key by key
C8_Recorded ==
    Matching =>
        /\ DOMAIN matches =
              {steps[n].product[1].name : n \in {k \in StepNumbers : steps[k].product # <<>>}}
        /\ \A key \in DOMAIN matches :
              matches[key] = RecordedUnder(key, Len(steps))

\* a step keeps every key and every list, up to entries appended at its end
C8_Grows ==
    /\ DOMAIN matches \subseteq DOMAIN matches'
    /\ \A key \in DOMAIN matches :
          /\ Len(matches'[key]) >= Len(matches[key])
          /\ SubSeq(matches'[key], 1, Len(matches[key])) = matches[key]

\* C8: at every point of match_listings the keys of the result mapping are
\* the names of the products matched so far, and the list under a key is the
\* sequence of the listings processed so far that were matched to it, in
\* processing order, equal listings kept; no step removes a key, and a step
\* changes a key's list only by appending at its end.
C8_Aggregation == []C8_Recorded /\ [][C8_Grows]_vars

\* C8 witness: the same listing was processed twice and is twice in the list
\* of its product
C8_Witness ==
    /\ Matching
    /\ Len(steps) = 2
    /\ steps[1].listing = steps[2].listing
    /\ steps[1].product # <<>>
    /\ matches[steps[1].product[1].name] = <<steps[1].listing, steps[2].listing>>

\* C9: a listing matched to a product is recorded in the result mapping under
\* the display name (product_name) that a catalog line of the product gives.
C9_RecordedUnderDisplayName ==
    Matching =>
        \A n \in StepNumbers :
            steps[n].product # <<>> =>
                \E k \in LinesOf(steps[n].product[1]) :
                    /\ products_read[k].product_name \in DOMAIN matches
                    /\ \E i \in 1..Len(matches[products_read[k].product_name]) :
                          matches[products_read[k].product_name][i] = steps[n].listing

\* C10: when a line of the products file lacks a required field, construction
\* fails, no listing is matched afterwards, and Matcher.manufacturers holds
\* nothing taken from the lines read up to the failure.
C10_AllOrNothing ==
    pc = "raised" =>
        /\ steps = <<>>
        /\ matches = <<>>
        /\ output = {}
        /\ manufacturers = <<>>

====
